---- MODULE Spec2Model ----
(***************************************************************************)
(* Wumpus World environment (src/wumpus_env.py, class WumpusWorldEnv).     *)
(* The state is the environment object's attributes, plus the value the    *)
(* last call returned.  One action per public operation: step(action) and  *)
(* get_percept(0), the latter as the UI calls it to observe.               *)
(***************************************************************************)
EXTENDS Integers, FiniteSets, Sequences, TLC

\* ------------------------------------------------------------------------
\* Bounds of the model: grids of at most MaxWidth x MaxHeight and at most
\* MaxCells cells, at most MaxPits pits, episodes of at most MaxSteps
\* executed steps.
\* ------------------------------------------------------------------------
MaxWidth == 3
MaxHeight == 2
MaxCells == 4
MaxPits == 1
MaxSteps == 6

\* ------------------------------------------------------------------------
\* Enums: Action and Direction
\* ------------------------------------------------------------------------
Action == {"FORWARD", "TURN_LEFT", "TURN_RIGHT", "SHOOT", "GRAB", "CLIMB"}

Direction == {"N", "E", "S", "W"}

\* left with the table of a right turn.
left_clockwise(d) ==
    CASE d = "N" -> "E"
      [] d = "E" -> "S"
      [] d = "S" -> "W"
      [] d = "W" -> "N"

left(d) ==
    CASE d = "N" -> "W"
      [] d = "W" -> "S"
      [] d = "S" -> "E"
      [] d = "E" -> "N"

right(d) ==
    CASE d = "N" -> "E"
      [] d = "E" -> "S"
      [] d = "S" -> "W"
      [] d = "W" -> "N"

\* ------------------------------------------------------------------------
\* Pos and Percept
\* ------------------------------------------------------------------------
Pos(x, y) == [x |-> x, y |-> y]

neighbors_4(p) ==
    { Pos(p.x + 1, p.y), Pos(p.x - 1, p.y), Pos(p.x, p.y + 1), Pos(p.x, p.y - 1) }

Percept(stench, breeze, glitter, bump, scream, reward) ==
    [stench |-> stench, breeze |-> breeze, glitter |-> glitter,
     bump |-> bump, scream |-> scream, reward |-> reward]

\* ------------------------------------------------------------------------
\* State of a WumpusWorldEnv
\* ------------------------------------------------------------------------
VARIABLES
    built,                      \* "pending" before __init__ has run, then "ok",
                                \* or "IndexError" when __init__ raised
    width, height,              \* grid dimensions
    allow_climb_without_gold,   \* configuration flag
    pit_prob,                   \* pit probability, in hundredths
    agent_pos, agent_dir,       \* agent pose
    gold_pos, wumpus_pos,       \* world objects
    wumpus_alive,
    pits,                       \* set of Pos
    has_gold, arrow_available,  \* inventory
    terminated, dead,           \* episode terminal state
    last_bump, last_scream,     \* transient signals (_last_bump, _last_scream)
    steps, total_reward,        \* metrics
    call,                       \* the last call made: an Action, "observe", or "none"
    percept,                    \* the Percept the last call returned
    screams,                    \* number of percepts with scream returned by step
    live_calls,                 \* number of step calls made on a running episode
    reward_sum                  \* sum of the rewards of the percepts returned by step

world == <<width, height, allow_climb_without_gold, pit_prob, gold_pos,
           wumpus_pos, pits>>

episode == <<agent_pos, agent_dir, wumpus_alive, has_gold, arrow_available,
             terminated, dead, last_bump, last_scream, steps, total_reward>>

history == <<screams, live_calls, reward_sum>>

vars == <<built, world, episode, call, percept, history>>

\* ------------------------------------------------------------------------
\* Internal helpers
\* ------------------------------------------------------------------------
\* in_bounds with the lower limits off by one.
in_bounds_from_zero(p) ==
    0 <= p.x /\ p.x <= width /\ 0 <= p.y /\ p.y <= height

in_bounds(p) ==
    1 <= p.x /\ p.x <= width /\ 1 <= p.y /\ p.y <= height

\* _random_non_start_pos without the exclusion of (1,1).
random_pos_with_start(w, h) ==
    { Pos(x, y) : x \in 1..w, y \in 1..h }

\* The cells _random_non_start_pos chooses among, for a w x h grid.
random_non_start_pos(w, h) ==
    { Pos(x, y) : x \in 1..w, y \in 1..h } \ { Pos(1, 1) }

\* The pit sets _place_pits can produce on a w x h grid: each non-start cell
\* is a pit when rng.random(), a number in [0, 1), is below the probability
\* (prob, in hundredths).
place_pits(w, h, prob) ==
    LET cells == { Pos(x, y) : x \in 1..w, y \in 1..h } \ { Pos(1, 1) } IN
    IF prob <= 0 THEN { {} }
    ELSE IF prob >= 100 THEN { cells }
    ELSE SUBSET cells

forward_pos(p, d) ==
    IF d = "N" THEN Pos(p.x, p.y + 1)
    ELSE IF d = "S" THEN Pos(p.x, p.y - 1)
    ELSE IF d = "E" THEN Pos(p.x + 1, p.y)
    ELSE Pos(p.x - 1, p.y)

\* ------------------------------------------------------------------------
\* Percept generation
\* ------------------------------------------------------------------------
\* Stench only while the wumpus is alive.
stench_at_alive_only(p) ==
    /\ wumpus_alive
    /\ (p = wumpus_pos \/ \E n \in neighbors_4(p) : in_bounds(n) /\ n = wumpus_pos)

stench_at(p) ==
    IF p = wumpus_pos THEN TRUE
    ELSE \E n \in neighbors_4(p) : in_bounds(n) /\ n = wumpus_pos

\* Breeze also on the pit cell itself, as stench is on the wumpus cell.
breeze_at_own_cell_too(p) ==
    p \in pits \/ \E n \in neighbors_4(p) : in_bounds(n) /\ n \in pits

breeze_at(p) ==
    \E n \in neighbors_4(p) : in_bounds(n) /\ n \in pits

\* get_percept with no glitter once the gold is carried.
get_percept_gold_taken(pos, bump, scream, reward_override) ==
    Percept(stench_at(pos), breeze_at(pos), pos = gold_pos /\ ~has_gold, bump,
            scream, reward_override)

\* get_percept as a function of the attributes it reads.
get_percept(pos, bump, scream, reward_override) ==
    Percept(stench_at(pos), breeze_at(pos), pos = gold_pos, bump, scream,
            reward_override)

\* ------------------------------------------------------------------------
\* Mechanics: shooting
\* ------------------------------------------------------------------------
\* _shoot_arrow without the loop: only the cell next to p is looked at.
arrow_flight_one_cell(p, d) ==
    LET q == forward_pos(p, d) IN
    in_bounds(q) /\ q = wumpus_pos /\ wumpus_alive

\* The loop of _shoot_arrow, from the cell p the arrow is at.
RECURSIVE arrow_flight(_, _)
arrow_flight(p, d) ==
    LET q == forward_pos(p, d) IN
    IF ~in_bounds(q) THEN FALSE
    ELSE IF q = wumpus_pos /\ wumpus_alive THEN TRUE
    ELSE arrow_flight(q, d)

shoot_arrow == arrow_flight(agent_pos, agent_dir)

\* ------------------------------------------------------------------------
\* Construction
\* ------------------------------------------------------------------------
NoPercept == Percept(FALSE, FALSE, FALSE, FALSE, FALSE, 0)

\* Values of pit_prob tried, in hundredths: below 0, 0, the default 0.2, 1,
\* above 1.
PitProbs == {-50, 0, 20, 100, 150}

\* The state after a construction that succeeded, with a probability in [0, 1].
Init ==
    /\ built = "ok"
    /\ width \in 1..MaxWidth
    /\ height \in 1..MaxHeight
    /\ width * height <= MaxCells
    /\ allow_climb_without_gold \in BOOLEAN
    /\ pit_prob \in { p \in PitProbs : 0 <= p /\ p <= 100 }
    /\ agent_pos = Pos(1, 1)
    /\ agent_dir = "E"
    /\ gold_pos \in random_non_start_pos(width, height)
    /\ wumpus_pos \in random_non_start_pos(width, height)
    /\ wumpus_alive = TRUE
    /\ pits \in place_pits(width, height, pit_prob)
    /\ Cardinality(pits) <= MaxPits
    /\ has_gold = FALSE
    /\ arrow_available = TRUE
    /\ terminated = FALSE
    /\ dead = FALSE
    /\ last_bump = FALSE
    /\ last_scream = FALSE
    /\ steps = 0
    /\ total_reward = 0
    /\ call = "none"
    /\ percept = NoPercept
    /\ screams = 0
    /\ live_calls = 0
    /\ reward_sum = 0

\* Placement with collision avoidance: gold, wumpus and pits on distinct cells.
placements_apart(w, h, prob) ==
    { pl \in [gold : random_non_start_pos(w, h),
              wumpus : random_non_start_pos(w, h),
              pits : place_pits(w, h, prob)] :
        pl.gold # pl.wumpus /\ pl.gold \notin pl.pits /\ pl.wumpus \notin pl.pits }

\* The world objects __init__ can place: gold, wumpus and pits are drawn
\* independently of each other.
placements(w, h, prob) ==
    { [gold |-> g, wumpus |-> u, pits |-> ps] :
        g \in random_non_start_pos(w, h),
        u \in random_non_start_pos(w, h),
        ps \in place_pits(w, h, prob) }

\* A position standing for an attribute that is not set yet.
Unset == Pos(0, 0)

\* Before __init__ runs: its arguments, valid or not.
InitCreate ==
    /\ built = "pending"
    /\ width \in -1..MaxWidth
    /\ height \in -1..MaxHeight
    /\ width * height <= MaxCells
    /\ allow_climb_without_gold \in BOOLEAN
    /\ pit_prob \in PitProbs
    /\ agent_pos = Unset
    /\ agent_dir = "E"
    /\ gold_pos = Unset
    /\ wumpus_pos = Unset
    /\ wumpus_alive = TRUE
    /\ pits = {}
    /\ has_gold = FALSE
    /\ arrow_available = TRUE
    /\ terminated = FALSE
    /\ dead = FALSE
    /\ last_bump = FALSE
    /\ last_scream = FALSE
    /\ steps = 0
    /\ total_reward = 0
    /\ call = "none"
    /\ percept = NoPercept
    /\ screams = 0
    /\ live_calls = 0
    /\ reward_sum = 0

\* __init__: rng.choice raises IndexError when there is no non-start cell;
\* otherwise the world objects are placed and the episode starts.  The
\* arguments are not validated.
Create ==
    /\ built = "pending"
    /\ IF random_non_start_pos(width, height) = {}
       THEN /\ built' = "IndexError"
            /\ UNCHANGED <<world, episode>>
       ELSE /\ built' = "ok"
            /\ \E pl \in placements(width, height, pit_prob) :
                  /\ gold_pos' = pl.gold
                  /\ wumpus_pos' = pl.wumpus
                  /\ pits' = pl.pits
            /\ agent_pos' = Pos(1, 1)
            /\ agent_dir' = "E"
            /\ wumpus_alive' = TRUE
            /\ has_gold' = FALSE
            /\ arrow_available' = TRUE
            /\ terminated' = FALSE
            /\ dead' = FALSE
            /\ last_bump' = FALSE
            /\ last_scream' = FALSE
            /\ steps' = 0
            /\ total_reward' = 0
            /\ UNCHANGED <<width, height, allow_climb_without_gold, pit_prob>>
    /\ UNCHANGED <<call, percept, history>>

\* ------------------------------------------------------------------------
\* step(action)
\* ------------------------------------------------------------------------
\* FORWARD: the position after the move, and whether the agent hit the wall.
forward_target == forward_pos(agent_pos, agent_dir)

moved_pos(action) ==
    IF action = "FORWARD" /\ in_bounds(forward_target) THEN forward_target
    ELSE agent_pos

\* The bump flag set by every FORWARD, blocked or not.
bumped_on_any_forward(action) ==
    action = "FORWARD"

bumped(action) ==
    action = "FORWARD" /\ ~in_bounds(forward_target)

turned_dir(action) ==
    IF action = "TURN_LEFT" THEN left(agent_dir)
    ELSE IF action = "TURN_RIGHT" THEN right(agent_dir)
    ELSE agent_dir

\* GRAB without the gold-cell test.
grabbed_anywhere(action) ==
    IF action = "GRAB" THEN TRUE ELSE has_gold

\* GRAB: gold is collected only on the gold cell.
grabbed(action) ==
    IF action = "GRAB" /\ agent_pos = gold_pos THEN TRUE ELSE has_gold

\* SHOOT without the arrow_available test.
arrow_shot_unlimited(action) ==
    action = "SHOOT"

\* SHOOT: the arrow can be shot once; it costs 10 extra.
arrow_shot(action) ==
    action = "SHOOT" /\ arrow_available

wumpus_hit(action) ==
    arrow_shot(action) /\ shoot_arrow

\* The arrow kept when it hits the wumpus.
arrow_left_kept_on_hit(action) ==
    IF arrow_shot(action) /\ ~shoot_arrow THEN FALSE ELSE arrow_available

\* arrow_available after the action: the one arrow is gone once shot.
arrow_left(action) ==
    IF arrow_shot(action) THEN FALSE ELSE arrow_available

\* CLIMB without the start-cell test.
climbed_anywhere(action) ==
    /\ action = "CLIMB"
    /\ (allow_climb_without_gold \/ has_gold)

\* CLIMB without the test of the gold.
climbed_without_gold_test(action) ==
    /\ action = "CLIMB"
    /\ agent_pos = Pos(1, 1)

\* CLIMB: only from the start cell, with gold unless climbing without is allowed.
climbed(action) ==
    /\ action = "CLIMB"
    /\ agent_pos = Pos(1, 1)
    /\ (allow_climb_without_gold \/ has_gold)

\* The success reward given on every successful CLIMB, gold or not.
action_reward_bonus_always(action) ==
    -1 + (IF arrow_shot(action) THEN -10 ELSE 0)
       + (IF climbed(action) THEN 1000 ELSE 0)

\* The arrow's cost charged only when the arrow hits.
action_reward_miss_is_free(action) ==
    -1 + (IF wumpus_hit(action) THEN -10 ELSE 0)
       + (IF climbed(action) /\ has_gold THEN 1000 ELSE 0)

\* The reward after the action is executed, before the death check.
action_reward(action) ==
    -1 + (IF arrow_shot(action) THEN -10 ELSE 0)
       + (IF climbed(action) /\ has_gold THEN 1000 ELSE 0)

\* Death check with two independent tests (if / if) instead of if / elif.
death_check_twice(pos, alive, term, reward) ==
    LET pit    == ~term /\ pos \in pits
        wumpus == ~term /\ pos = wumpus_pos /\ alive
    IN  [reward     |-> reward + (IF pit THEN -1000 ELSE 0)
                               + (IF wumpus THEN -1000 ELSE 0),
         dead       |-> IF pit \/ wumpus THEN TRUE ELSE dead,
         terminated |-> IF pit \/ wumpus THEN TRUE ELSE term]

\* Death check whose wumpus branch does not end the episode.
death_check_wumpus_goes_on(pos, alive, term, reward) ==
    IF ~term THEN
        IF pos \in pits THEN
            [reward |-> reward - 1000, dead |-> TRUE, terminated |-> TRUE]
        ELSE IF pos = wumpus_pos /\ alive THEN
            [reward |-> reward - 1000, dead |-> TRUE, terminated |-> term]
        ELSE
            [reward |-> reward, dead |-> dead, terminated |-> term]
    ELSE
        [reward |-> reward, dead |-> dead, terminated |-> term]

\* Death check without the wumpus branch.
death_check_pits_only(pos, alive, term, reward) ==
    IF ~term /\ pos \in pits THEN
        [reward |-> reward - 1000, dead |-> TRUE, terminated |-> TRUE]
    ELSE
        [reward |-> reward, dead |-> dead, terminated |-> term]

\* Death check (skipped if the episode was ended by CLIMB): the reward, dead
\* and terminated after it, for the agent at pos, the wumpus alive or not, the
\* episode ended by CLIMB or not (term) and the reward so far.
death_check(pos, alive, term, reward) ==
    IF ~term THEN
        IF pos \in pits THEN
            [reward |-> reward - 1000, dead |-> TRUE, terminated |-> TRUE]
        ELSE IF pos = wumpus_pos /\ alive THEN
            [reward |-> reward - 1000, dead |-> TRUE, terminated |-> TRUE]
        ELSE
            [reward |-> reward, dead |-> dead, terminated |-> term]
    ELSE
        [reward |-> reward, dead |-> dead, terminated |-> term]

\* The transient flags left as the previous step set them.
reset_bump_forgotten == last_bump

reset_scream_forgotten == last_scream

\* The transient flags as step resets them before executing the action.
reset_bump == FALSE

reset_scream == FALSE

\* The cumulative score overwritten by the reward (= for +=).
accumulated_overwritten(reward) ==
    reward

\* The cumulative score after a step with this reward.
accumulated(reward) ==
    total_reward + reward

\* step on a terminated episode: the current percept with reward 0.
terminal_step(action) ==
    /\ percept' = get_percept(agent_pos, last_bump, last_scream, 0)
    /\ call' = action
    /\ screams' = screams + (IF last_scream THEN 1 ELSE 0)
    /\ UNCHANGED <<built, world, episode>>

\* step on a running episode.
running_step(action) ==
    /\ steps < MaxSteps
    /\ LET pos    == moved_pos(action)
           bump   == IF bumped(action) THEN TRUE ELSE reset_bump
           scream == IF wumpus_hit(action) THEN TRUE ELSE reset_scream
           alive  == IF wumpus_hit(action) THEN FALSE ELSE wumpus_alive
           after  == death_check(pos, alive, climbed(action), action_reward(action))
       IN  /\ steps' = steps + 1
           /\ last_bump' = bump
           /\ last_scream' = scream
           /\ agent_dir' = turned_dir(action)
           /\ agent_pos' = pos
           /\ has_gold' = grabbed(action)
           /\ arrow_available' = arrow_left(action)
           /\ wumpus_alive' = alive
           /\ dead' = after.dead
           /\ terminated' = after.terminated
           /\ total_reward' = accumulated(after.reward)
           /\ percept' = get_percept(pos, bump, scream, after.reward)
           /\ screams' = screams + (IF scream THEN 1 ELSE 0)
    /\ call' = action
    /\ UNCHANGED <<built, world>>

\* step without the test of terminated.
step_always_applied(action) ==
    running_step(action)

step(action) ==
    IF terminated THEN terminal_step(action) ELSE running_step(action)

\* A call of step with any action; the caller's view of it is recorded in
\* live_calls and reward_sum.
Step ==
    \E action \in Action :
        /\ built = "ok"
        /\ step(action)
        /\ live_calls' = live_calls + (IF terminated THEN 0 ELSE 1)
        /\ reward_sum' = reward_sum + percept'.reward

\* get_percept(0) consuming the transient flags it reports.
Observe_consuming_flags ==
    /\ percept' = get_percept(agent_pos, last_bump, last_scream, 0)
    /\ call' = "observe"
    /\ last_bump' = FALSE
    /\ last_scream' = FALSE
    /\ UNCHANGED <<agent_pos, agent_dir, wumpus_alive, has_gold, arrow_available,
                   terminated, dead, steps, total_reward>>
    /\ UNCHANGED <<built, world, history>>

\* get_percept(0), as the UI calls it to observe before choosing an action.
Observe ==
    /\ built = "ok"
    /\ percept' = get_percept(agent_pos, last_bump, last_scream, 0)
    /\ call' = "observe"
    /\ UNCHANGED <<built, world, episode, history>>

Next == Step \/ Observe

Spec == Init /\ [][Next]_vars

\* Construction with any arguments, followed by the get_percept(0) of the UI.
NextCreate == Create \/ Observe

SpecCreate == InitCreate /\ [][NextCreate]_vars

\* ------------------------------------------------------------------------
\* Properties
\* ------------------------------------------------------------------------
\* A transition made by step(action), and one made by step on a running
\* (not yet terminated) episode, where the action is actually executed.
StepCalled == call' \in Action

StepApplied == ~terminated /\ call' \in Action

InsideGrid(p) == p.x \in 1..width /\ p.y \in 1..height

\* C1: once terminated is true it stays true, and every later step, for any
\* action, leaves the whole state unchanged (steps, total_reward, agent_pos,
\* agent_dir, has_gold, arrow_available, wumpus_alive, dead, the transient
\* flags, and the world) and returns a percept with reward 0.
C1_TerminatedIsFrozen ==
    [][terminated =>
          /\ terminated'
          /\ UNCHANGED <<steps, total_reward, agent_pos, agent_dir, has_gold,
                         arrow_available, wumpus_alive, dead, last_bump,
                         last_scream>>
          /\ UNCHANGED world
          /\ (StepCalled => percept'.reward = 0)]_vars

\* A step was called on an episode that had ended by death.
C1_Witness ==
    /\ terminated /\ dead
    /\ call \in Action
    /\ percept.reward = 0
    /\ total_reward < 0

\* C2: an executed step after which the agent stands on a pit or on the cell
\* of a live wumpus has reward -1001 (the action cost and -1000 once, also
\* when both hazards share the cell) and sets dead and terminated.
C2_DeathAppliedOnce ==
    [][(StepApplied /\ (agent_pos' \in pits
                          \/ (agent_pos' = wumpus_pos /\ wumpus_alive')))
          => /\ dead' /\ terminated'
             /\ percept'.reward = -1001
             /\ total_reward' = total_reward - 1001]_vars

\* The agent moved onto a cell that holds both a pit and the live wumpus.
C2_Witness ==
    /\ dead /\ terminated
    /\ call = "FORWARD"
    /\ agent_pos \in pits
    /\ agent_pos = wumpus_pos /\ wumpus_alive
    /\ percept.reward = -1001

\* C3: agent_pos always lies within [1,width] x [1,height], and a FORWARD
\* whose target cell is outside the grid leaves agent_pos unchanged.
C3_AgentStaysInGrid ==
    /\ [](InsideGrid(agent_pos))
    /\ [][(StepCalled /\ call' = "FORWARD"
             /\ ~InsideGrid(forward_pos(agent_pos, agent_dir)))
            => agent_pos' = agent_pos]_vars

\* The agent walked to the far wall and bumped into it.
C3_Witness ==
    /\ call = "FORWARD"
    /\ percept.bump
    /\ agent_pos.x = width /\ width >= 2
    /\ agent_dir = "E"

\* C4: an executed CLIMB at (1,1) with allow_climb_without_gold or has_gold
\* sets terminated, leaves dead false, and has reward 999 with the gold and
\* -1 without; as the first action in permissive mode it ends the episode
\* with dead false and total_reward -1.
C4_ClimbSucceeds ==
    [][(StepApplied /\ call' = "CLIMB" /\ agent_pos = Pos(1, 1)
           /\ (allow_climb_without_gold \/ has_gold))
          => /\ terminated' /\ ~dead'
             /\ percept'.reward = (IF has_gold THEN 999 ELSE -1)
             /\ (steps = 0 => total_reward' = -1)]_vars

\* In strict mode the agent climbed out with the gold.
C4_Witness ==
    /\ terminated /\ ~dead
    /\ call = "CLIMB"
    /\ ~allow_climb_without_gold /\ has_gold
    /\ percept.reward = 999

\* C5: an executed CLIMB that is not permitted (not at (1,1), or at (1,1)
\* without gold in strict mode) leaves terminated and dead false, has reward
\* -1, and changes nothing but steps +1, total_reward -1 and the transient
\* flags, which are cleared.
C5_ClimbRefused ==
    [][(StepApplied /\ call' = "CLIMB"
           /\ (agent_pos # Pos(1, 1)
                 \/ (~has_gold /\ ~allow_climb_without_gold)))
          => /\ ~terminated' /\ ~dead'
             /\ percept'.reward = -1
             /\ steps' = steps + 1
             /\ total_reward' = total_reward - 1
             /\ ~last_bump' /\ ~last_scream'
             /\ UNCHANGED <<agent_pos, agent_dir, has_gold, arrow_available,
                            wumpus_alive>>
             /\ UNCHANGED world]_vars

\* The agent, carrying the gold, tried to climb away from the start cell.
C5_Witness ==
    /\ ~terminated
    /\ call = "CLIMB"
    /\ agent_pos # Pos(1, 1)
    /\ has_gold
    /\ percept.reward = -1

\* The cell w lies strictly ahead of the cell a along direction d (same
\* column for N and S, same row for E and W).
StrictlyAhead(a, d, w) ==
    CASE d = "N" -> w.x = a.x /\ w.y > a.y
      [] d = "S" -> w.x = a.x /\ w.y < a.y
      [] d = "E" -> w.y = a.y /\ w.x > a.x
      [] d = "W" -> w.y = a.y /\ w.x < a.x

\* C6: arrow_available never goes back from false to true (so it changes
\* from true to false at most once), and an executed SHOOT without the arrow
\* has reward -1, returns scream false and leaves arrow_available false and
\* wumpus_alive unchanged.
C6_ArrowShotOnce ==
    [][/\ (~arrow_available => ~arrow_available')
       /\ ((StepApplied /\ call' = "SHOOT" /\ ~arrow_available)
             => /\ percept'.reward = -1
                /\ ~percept'.scream
                /\ ~arrow_available'
                /\ wumpus_alive' = wumpus_alive)]_vars

\* A SHOOT with no arrow left, the wumpus alive and straight ahead.
C6_Witness ==
    /\ ~terminated
    /\ call = "SHOOT"
    /\ percept.reward = -1
    /\ ~arrow_available
    /\ wumpus_alive
    /\ StrictlyAhead(agent_pos, agent_dir, wumpus_pos)

\* C7: an executed SHOOT with the arrow sets arrow_available false and has
\* reward -11, hit or miss; it sets wumpus_alive false and scream true iff
\* the wumpus is alive and its cell lies strictly ahead of agent_pos along
\* agent_dir, whatever lies in between; otherwise wumpus_alive is unchanged
\* and scream is false.
C7_ShootHitsInLine ==
    [][(StepApplied /\ call' = "SHOOT" /\ arrow_available)
          => /\ ~arrow_available'
             /\ percept'.reward = -11
             /\ IF wumpus_alive /\ InsideGrid(wumpus_pos)
                     /\ StrictlyAhead(agent_pos, agent_dir, wumpus_pos)
                THEN ~wumpus_alive' /\ percept'.scream
                ELSE wumpus_alive' = wumpus_alive /\ ~percept'.scream]_vars

\* The arrow flew over a pit holding the gold and killed the wumpus behind it.
C7_Witness ==
    /\ call = "SHOOT"
    /\ percept.scream /\ percept.reward = -11
    /\ ~wumpus_alive /\ ~arrow_available
    /\ \E p \in pits : /\ p = gold_pos
                       /\ StrictlyAhead(agent_pos, agent_dir, p)
                       /\ StrictlyAhead(p, agent_dir, wumpus_pos)

\* C8: wumpus_alive never goes back from false to true (so it changes from
\* true to false at most once); over any sequence of step calls at most one
\* returned percept has scream true, the one of the step that killed the
\* wumpus, and no step after it returns scream true.
C8_OneScream ==
    /\ [](screams <= 1)
    /\ [][/\ (~wumpus_alive => ~wumpus_alive')
          /\ ((StepCalled /\ percept'.scream) => (wumpus_alive /\ ~wumpus_alive'))
          /\ ((StepCalled /\ ~wumpus_alive) => ~percept'.scream)]_vars

\* A step made after the one that killed the wumpus returned no scream.
C8_Witness ==
    /\ screams = 1
    /\ ~wumpus_alive
    /\ call \in Action
    /\ ~percept.scream
    /\ steps >= 2

\* C9: the percept of an executed step has bump true iff the action was
\* FORWARD and the cell ahead was outside the grid, agent_pos and agent_dir
\* then being unchanged; a step that does not bump itself (a no-op step on a
\* terminated episode included) never returns bump true.
C9_BumpOnlyFromThisStep ==
    [][/\ (StepApplied =>
             /\ percept'.bump <=>
                  (call' = "FORWARD"
                     /\ ~InsideGrid(forward_pos(agent_pos, agent_dir)))
             /\ (percept'.bump =>
                   agent_pos' = agent_pos /\ agent_dir' = agent_dir))
       /\ ((StepCalled /\ terminated) => ~percept'.bump)]_vars

\* After turning, the agent went FORWARD into a wall and got a bump.
C9_Witness ==
    /\ call = "FORWARD"
    /\ percept.bump
    /\ steps >= 2
    /\ agent_dir # "E"

\* C10: dead implies terminated in every reachable state.
C10_DeadImpliesTerminated ==
    dead => terminated

\* The agent died.
C10_Witness ==
    /\ dead
    /\ agent_pos = wumpus_pos /\ wumpus_alive
    /\ agent_pos \notin pits

\* Number of moves between two cells (|dx| + |dy|).
Distance(a, b) ==
    (IF a.x >= b.x THEN a.x - b.x ELSE b.x - a.x)
      + (IF a.y >= b.y THEN a.y - b.y ELSE b.y - a.y)

\* A percept has been returned, by step or by get_percept(0).
PerceptReturned == call # "none"

\* C11: has_gold never goes back from true to false and becomes true only by
\* a GRAB executed on the gold cell; an executed GRAB on another cell, or
\* with the gold already carried, changes nothing but steps +1, total_reward
\* -1 and the transient flags, which are cleared.
C11_GoldOnlyByGrab ==
    [][/\ (has_gold => has_gold')
       /\ ((~has_gold /\ has_gold')
             => (StepApplied /\ call' = "GRAB" /\ agent_pos = gold_pos))
       /\ ((StepApplied /\ call' = "GRAB" /\ agent_pos = gold_pos) => has_gold')
       /\ ((StepApplied /\ call' = "GRAB" /\ (agent_pos # gold_pos \/ has_gold))
             => /\ steps' = steps + 1
                /\ total_reward' = total_reward - 1
                /\ percept'.reward = -1
                /\ ~last_bump' /\ ~last_scream'
                /\ UNCHANGED <<agent_pos, agent_dir, has_gold, arrow_available,
                               wumpus_alive, terminated, dead>>
                /\ UNCHANGED world)]_vars

\* A GRAB away from the gold cell, the gold not carried.
C11_Witness ==
    /\ call = "GRAB"
    /\ ~terminated
    /\ agent_pos # gold_pos
    /\ agent_pos # Pos(1, 1)
    /\ ~has_gold

\* C13: in every percept, stench is true iff wumpus_pos is agent_pos or an
\* orthogonal neighbour of it, the wumpus alive or dead.
C13_StenchNearWumpus ==
    PerceptReturned => (percept.stench <=> Distance(agent_pos, wumpus_pos) <= 1)

\* A step ended next to the dead wumpus and returned stench.
C13_Witness ==
    /\ call \in Action
    /\ ~wumpus_alive
    /\ Distance(agent_pos, wumpus_pos) = 1
    /\ percept.stench

\* C14: in every percept, breeze is true iff a pit is an orthogonal neighbour
\* of agent_pos; a pit on the agent's own cell or on a diagonal cell alone
\* gives no breeze.
C14_BreezeNextToPit ==
    PerceptReturned =>
        (percept.breeze <=> \E p \in pits : Distance(agent_pos, p) = 1)

\* The agent fell into a pit and felt no breeze there.
C14_Witness ==
    /\ call = "FORWARD"
    /\ agent_pos \in pits
    /\ ~percept.breeze

\* C15: in every percept, glitter is true iff agent_pos = gold_pos, whatever
\* has_gold is.
C15_GlitterOnGoldCell ==
    PerceptReturned => (percept.glitter <=> agent_pos = gold_pos)

\* The agent, carrying the gold, turned on the gold cell and got glitter.
C15_Witness ==
    /\ has_gold
    /\ call \in {"TURN_LEFT", "TURN_RIGHT"}
    /\ agent_pos = gold_pos
    /\ percept.glitter

\* The rotation tables of the claim.
TurnedLeft(d) ==
    CASE d = "N" -> "W" [] d = "W" -> "S" [] d = "S" -> "E" [] d = "E" -> "N"

TurnedRight(d) ==
    CASE d = "N" -> "E" [] d = "E" -> "S" [] d = "S" -> "W" [] d = "W" -> "N"

\* C16: TURN_LEFT maps N->W, W->S, S->E, E->N and TURN_RIGHT maps N->E, E->S,
\* S->W, W->N; four equal turns, or a left and a right turn in either order,
\* restore the direction; an executed turn never changes agent_pos, never
\* terminates the episode and has reward -1.
C16_Turns ==
    /\ [](\A d \in Direction :
             /\ left(left(left(left(d)))) = d
             /\ right(right(right(right(d)))) = d
             /\ left(right(d)) = d
             /\ right(left(d)) = d)
    /\ [][(StepApplied /\ call' \in {"TURN_LEFT", "TURN_RIGHT"})
            => /\ agent_dir' = (IF call' = "TURN_LEFT" THEN TurnedLeft(agent_dir)
                                ELSE TurnedRight(agent_dir))
               /\ agent_pos' = agent_pos
               /\ ~terminated'
               /\ percept'.reward = -1]_vars

\* The agent turned left away from the start cell.
C16_Witness ==
    /\ call = "TURN_LEFT"
    /\ ~terminated
    /\ agent_pos # Pos(1, 1)
    /\ agent_dir = "N"
    /\ percept.reward = -1

\* C12: steps is the number of step calls made while the episode was not
\* yet terminated, and total_reward is the sum of the rewards of all percepts
\* step returned.
C12_CountersMatchCalls ==
    /\ steps = live_calls
    /\ total_reward = reward_sum

\* After a gold run that ended with reward 999, one more step was called.
C12_Witness ==
    /\ terminated /\ ~dead /\ has_gold
    /\ call \in Action
    /\ percept.reward = 0
    /\ steps = 6
    /\ total_reward = 994

\* C18: width, height, gold_pos, wumpus_pos and pits never change, and in
\* every reachable state (1,1) is not a pit, neither gold_pos nor wumpus_pos
\* is (1,1), and all of them lie inside the grid.
C18_WorldIsFixed ==
    /\ [][UNCHANGED <<width, height, gold_pos, wumpus_pos, pits>>]_vars
    /\ [](/\ Pos(1, 1) \notin pits
          /\ gold_pos # Pos(1, 1)
          /\ wumpus_pos # Pos(1, 1)
          /\ InsideGrid(gold_pos)
          /\ InsideGrid(wumpus_pos)
          /\ \A p \in pits : InsideGrid(p))

\* An episode in which the gold was taken and the wumpus killed, in a world
\* with a pit.
C18_Witness ==
    /\ steps >= 3
    /\ has_gold
    /\ ~wumpus_alive
    /\ pits # {}

\* C19: get_percept(0) changes no state and returns reward 0, so that the
\* state every later step starts from is the one it would have started from
\* without the call.
C19_ObserveIsPure ==
    [][call' = "observe"
          => /\ UNCHANGED <<world, episode>>
             /\ UNCHANGED <<screams, live_calls, reward_sum>>
             /\ percept'.reward = 0]_vars

\* get_percept(0) called after a step that bumped: it reports the bump, with
\* reward 0, and the flag is still set.
C19_Witness ==
    /\ call = "observe"
    /\ percept.bump
    /\ percept.reward = 0
    /\ last_bump
    /\ steps >= 1

\* C17: construction with a non-positive width or height, or with pit_prob
\* outside [0, 1], fails and yields no environment.
C17_InvalidConfigRejected ==
    [][(built = "pending"
          /\ (width <= 0 \/ height <= 0 \/ pit_prob < 0 \/ pit_prob > 100))
         => built' # "ok"]_vars

\* C20: construction avoids no collision: on any grid with a non-start cell
\* and with pit_prob > 0, gold_pos = wumpus_pos, gold_pos in pits and
\* wumpus_pos in pits are each a possible outcome of __init__.
C20_CollisionsPossible ==
    (built = "pending" /\ width >= 1 /\ height >= 1 /\ width * height >= 2
        /\ pit_prob > 0)
      => /\ ENABLED (Create /\ gold_pos' = wumpus_pos')
         /\ ENABLED (Create /\ gold_pos' \in pits')
         /\ ENABLED (Create /\ wumpus_pos' \in pits')

\* A world built with gold, wumpus and a pit on one cell.
C20_Witness ==
    /\ built = "ok"
    /\ gold_pos = wumpus_pos
    /\ gold_pos \in pits
    /\ pit_prob = 20

\* C21: in every reachable state total_reward = -steps - 10 [arrow used]
\* - 1000 [dead] + 1000 [terminated, not dead, has_gold], and the reward of
\* every executed step is one of -1, -11, 999 and -1001.
C21_ScoreClosedForm ==
    /\ [](total_reward =
            - steps
            - (IF arrow_available THEN 0 ELSE 10)
            - (IF dead THEN 1000 ELSE 0)
            + (IF terminated /\ ~dead /\ has_gold THEN 1000 ELSE 0))
    /\ [][StepApplied => percept'.reward \in {-1, -11, 999, -1001}]_vars

\* The agent shot the arrow, took the gold and then died.
C21_Witness ==
    /\ terminated /\ dead
    /\ ~arrow_available
    /\ has_gold
    /\ total_reward = -steps - 1010
    /\ percept.reward = -1001

\* C22: while the episode runs the agent is on no pit and not on a live
\* wumpus; dead is set only by a FORWARD that moved the agent to a new cell;
\* a dead agent is on a pit or on the cell of the wumpus, still alive.
C22_DeathOnlyByMovingOntoHazard ==
    /\ [](~terminated =>
            /\ agent_pos \notin pits
            /\ ~(agent_pos = wumpus_pos /\ wumpus_alive))
    /\ [](dead =>
            \/ agent_pos \in pits
            \/ (agent_pos = wumpus_pos /\ wumpus_alive))
    /\ [][(~dead /\ dead') =>
            /\ call' = "FORWARD"
            /\ agent_pos' # agent_pos
            /\ agent_pos' = forward_pos(agent_pos, agent_dir)]_vars

\* The agent turned, walked and then stepped onto the live wumpus.
C22_Witness ==
    /\ dead
    /\ call = "FORWARD"
    /\ agent_pos = wumpus_pos /\ wumpus_alive
    /\ agent_pos \notin pits
    /\ agent_dir # "E"
    /\ steps >= 3

\* C23: in every terminated state both transient flags are false, so the
\* percept of the terminating step and every percept obtained afterwards
\* (step as a no-op, or get_percept) has bump false and scream false.
C23_NoFlagsAfterTermination ==
    terminated =>
        /\ ~last_bump
        /\ ~last_scream
        /\ PerceptReturned => (~percept.bump /\ ~percept.scream)

\* step called on an episode that ended after the wumpus had screamed.
C23_Witness ==
    /\ terminated
    /\ screams = 1
    /\ call \in Action
    /\ percept.reward = 0
    /\ ~percept.bump /\ ~percept.scream
    /\ live_calls >= 2

\* C24: an episode that ended without death ended at (1,1), with the gold
\* unless allow_climb_without_gold; gold lying in a pit is never taken, and
\* with it a strict episode ends only by death.
C24_SurvivedOnlyByClimb ==
    /\ (terminated /\ ~dead) =>
          /\ agent_pos = Pos(1, 1)
          /\ (allow_climb_without_gold \/ has_gold)
    /\ gold_pos \in pits => ~has_gold
    /\ (gold_pos \in pits /\ ~allow_climb_without_gold /\ terminated) => dead

\* A strict episode ended alive, with the gold, in a world with a pit.
C24_Witness ==
    /\ terminated /\ ~dead
    /\ ~allow_climb_without_gold
    /\ has_gold
    /\ agent_pos = Pos(1, 1)
    /\ gold_pos # Pos(1, 1)
    /\ pits # {}

\* C25: a dead wumpus never coexists with an unused arrow, and a SHOOT with
\* the arrow (the only call of _shoot_arrow) finds the wumpus alive.
C25_DeadWumpusMeansArrowUsed ==
    /\ [](~wumpus_alive => ~arrow_available)
    /\ [][(StepApplied /\ call' = "SHOOT" /\ arrow_available) => wumpus_alive]_vars

\* The agent stands on the cell of the wumpus it killed.
C25_Witness ==
    /\ ~wumpus_alive
    /\ ~arrow_available
    /\ agent_pos = wumpus_pos
    /\ ~terminated

====
